---- MODULE Spec2Model ----
(***************************************************************************)
(* A model of the DS1343 real-time-clock driver sierralobo_ds134x.py: the  *)
(* register transport (_read_into, _read_u8, _write_from, _write_u8), the  *)
(* BCD codec (_bcd_to_int, _int_to_bcd) and the device facade (__init__,   *)
(* the datetime getter and setter, valid).                                 *)
(*                                                                         *)
(* Python integers are unbounded and //, % and & follow floor semantics on *)
(* negative operands; \div and % of TLA+ agree with them.                  *)
(***************************************************************************)
EXTENDS Integers, Sequences, FiniteSets, TLC

----------------------------------------------------------------------------
(* Bit operations of Python on integers.                                   *)

\* a & b for b >= 0 (a may be negative: two's complement of infinite width)
RECURSIVE BitAnd(_, _)
BitAnd(a, b) ==
    IF b = 0 THEN 0
    ELSE (a % 2) * (b % 2) + 2 * BitAnd(a \div 2, b \div 2)

\* a | b for a, b >= 0
RECURSIVE BitOr(_, _)
BitOr(a, b) ==
    IF a = 0 THEN b
    ELSE IF b = 0 THEN a
    ELSE (IF a % 2 = 1 \/ b % 2 = 1 THEN 1 ELSE 0) + 2 * BitOr(a \div 2, b \div 2)

\* a << n
Shl(a, n) == a * (2 ^ n)

\* a >> n
Shr(a, n) == a \div (2 ^ n)

----------------------------------------------------------------------------
(* The BCD codec, lines 145-163.                                           *)

\* a faulty decoder: the tens nibble weighed as in a binary byte
_bcd_to_int_binary(val) ==
    LET tens == Shr(BitAnd(val, 240), 4)
        ones == BitAnd(val, 15)
    IN  (tens * 16) + ones

_bcd_to_int(val) ==
    LET tens == Shr(BitAnd(val, 240), 4)        \* (val & 0xF0) >> 4
        ones == BitAnd(val, 15)                 \* val & 0x0F
    IN  (tens * 10) + ones

_int_to_bcd(val) ==
    LET thou == val \div 1000
        hund == val \div 100
        tens == val \div 10
        ones == val % 10
    IN  BitOr(BitOr(BitOr(Shl(BitAnd(thou, 15), 18),      \* << 0x12
                          Shl(BitAnd(hund, 15), 8)),
                    Shl(BitAnd(tens, 15), 4)),
              BitAnd(ones, 15))

----------------------------------------------------------------------------
(* time.struct_time and time.localtime, the calendar collaborator imported *)
(* on line 6.  localtime converts epoch seconds to calendar fields (the    *)
(* board keeps no time zone: local time is UTC); tm_wday counts Monday as  *)
(* 0.  Given anything that is not a number it raises TypeError.            *)

struct_time(y, mon, d, h, mi, s, wd, yd, dst) ==
    [tm_year |-> y, tm_mon |-> mon, tm_mday |-> d, tm_hour |-> h,
     tm_min |-> mi, tm_sec |-> s, tm_wday |-> wd, tm_yday |-> yd,
     tm_isdst |-> dst]

IsLeap(y) == (y % 4 = 0 /\ y % 100 # 0) \/ y % 400 = 0

\* days of the year before the first of month mon
DaysBeforeMonth(y, mon) ==
    LET cum == <<0, 31, 59, 90, 120, 151, 181, 212, 243, 273, 304, 334>>
    IN  cum[mon] + (IF mon > 2 /\ IsLeap(y) THEN 1 ELSE 0)

\* the civil date of a day count since 1970-01-01
CivilFromDays(days) ==
    LET z   == days + 719468
        era == z \div 146097
        doe == z - era * 146097
        yoe == (doe - doe \div 1460 + doe \div 36524 - doe \div 146096) \div 365
        doy == doe - (365 * yoe + yoe \div 4 - yoe \div 100)
        mp  == (5 * doy + 2) \div 153
        d   == doy - (153 * mp + 2) \div 5 + 1
        m   == IF mp < 10 THEN mp + 3 ELSE mp - 9
        y   == yoe + era * 400 + (IF m <= 2 THEN 1 ELSE 0)
    IN  [year |-> y, month |-> m, day |-> d]

localtime(secs) ==
    LET days == secs \div 86400
        rem  == secs % 86400
        c    == CivilFromDays(days)
    IN  struct_time(c.year, c.month, c.day,
                    rem \div 3600, (rem % 3600) \div 60, rem % 60,
                    (days + 3) % 7,
                    DaysBeforeMonth(c.year, c.month) + c.day, -1)

----------------------------------------------------------------------------
(* Python values handed to the datetime setter: a struct_time, an int or   *)
(* None.                                                                   *)

NoStruct == struct_time(0, 0, 0, 0, 0, 0, 0, 0, 0)

PyStruct(st) == [tag |-> "struct_time", int |-> 0, st |-> st]
PyInt(n)     == [tag |-> "int", int |-> n, st |-> NoStruct]
PyNone       == [tag |-> "None", int |-> 0, st |-> NoStruct]

\* time.localtime(x) as the setter calls it: the conversion of a number,
\* TypeError for an argument that is no number
time_localtime(x) ==
    IF x.tag = "int"
    THEN [err |-> "none", st |-> localtime(x.int)]
    ELSE [err |-> "TypeError", st |-> NoStruct]

\* isinstance(set, struct_time) of line 60: its first argument is the
\* builtin type set, not the parameter set_time, and a type object is no
\* struct_time
isinstance_set_struct_time(set_time) == FALSE

----------------------------------------------------------------------------
(* Register addresses, lines 17-18, and the module's shared transfer       *)
(* buffer, line 20.                                                        *)

_S_REG == 0
_CTRL_REG == 15
BufferLen == 8

Byte == 0..255
ZeroBuffer == [i \in 0..(BufferLen - 1) |-> 0]

\* the chip registers the model keeps: clock 0x00-0x06, alarms 0x07-0x0E,
\* control 0x0F, status 0x10
RegAddrs == 0..16

----------------------------------------------------------------------------
(* The machine an operation runs on.  regs: the chip registers; BUFFER:    *)
(* _BUFFER; cbuf: a buffer the caller of a transport method supplies; log: *)
(* the bus sessions of the operation, each with the bytes sent and         *)
(* received while chip-select was asserted; open: sessions now open;       *)
(* acquired, released: sessions entered and left by the operation; err:    *)
(* the exception propagating, if any; ret: the value returned; calls: the  *)
(* device.write and device.readinto calls made so far; peak: the most      *)
(* sessions open at once during the operation.  The bus fails in call      *)
(* number failAt (0: never) after moving `partial` bytes.                  *)

Fails(m) == m.err # "none"

Min(a, b) == IF a < b THEN a ELSE b

\* the session in progress
Cur(m) == m.log[Len(m.log)]

\* the chip's view of a session: the first byte clocked in holds the
\* direction in bit 7 (1: write) and the register address in bits 0-6; the
\* register pointer advances with every data byte
ChipIsWrite(t) == t.sent # <<>> /\ t.sent[1] >= 128
ChipPtr(t) == BitAnd(t.sent[1], 127) + (Len(t.sent) - 1) + Len(t.recv)

\* one byte clocked out to the chip
SendByte(m, b) ==
    LET t == Cur(m)
        n == Len(m.log)
    IN  IF t.sent = <<>>
        THEN [m EXCEPT !.log[n].sent = <<b>>]
        ELSE [m EXCEPT !.log[n].sent = Append(@, b),
                       !.regs = IF ChipIsWrite(t) /\ ChipPtr(t) \in RegAddrs
                                THEN [@ EXCEPT ![ChipPtr(t)] = b]
                                ELSE @]

\* bytes buf[i], ..., buf[n-1] clocked out in order
RECURSIVE SendBytes(_, _, _, _)
SendBytes(m, buf, i, n) ==
    IF i >= n THEN m ELSE SendBytes(SendByte(m, buf[i]), buf, i + 1, n)

\* the byte the chip clocks in next
ChipOut(m) ==
    LET t == Cur(m)
    IN  IF t.sent # <<>> /\ ~ChipIsWrite(t) /\ ChipPtr(t) \in RegAddrs
        THEN m.regs[ChipPtr(t)]
        ELSE 0

\* bytes clocked in and stored at buf[i], ..., buf[n-1]
RECURSIVE RecvBytes(_, _, _, _)
RecvBytes(m, buf, i, n) ==
    IF i >= n THEN m
    ELSE LET b  == ChipOut(m)
             k  == Len(m.log)
             m1 == [m EXCEPT !.log[k].recv = Append(@, b)]
             m2 == IF buf = "BUFFER"
                   THEN [m1 EXCEPT !.BUFFER[i] = b]
                   ELSE [m1 EXCEPT !.cbuf[i] = b]
         IN  RecvBytes(m2, buf, i + 1, n)

BufOf(m, buf) == IF buf = "BUFFER" THEN m.BUFFER ELSE m.cbuf

\* device.write(buf, end=end)
DeviceWrite(m, buf, end) ==
    IF Fails(m) THEN m
    ELSE LET c == m.calls + 1
             m1 == [m EXCEPT !.calls = c]
         IN  IF c = m.failAt
             THEN [SendBytes(m1, BufOf(m, buf), 0, Min(m.partial, end))
                       EXCEPT !.err = "OSError"]
             ELSE SendBytes(m1, BufOf(m, buf), 0, end)

\* device.readinto(buf, end=end)
DeviceReadInto(m, buf, end) ==
    IF Fails(m) THEN m
    ELSE LET c == m.calls + 1
             m1 == [m EXCEPT !.calls = c]
         IN  IF c = m.failAt
             THEN [RecvBytes(m1, buf, 0, Min(m.partial, end))
                       EXCEPT !.err = "OSError"]
             ELSE RecvBytes(m1, buf, 0, end)

\* `with self._device as device:` entered: chip-select asserted
SessionEnter(m, kind, address) ==
    [m EXCEPT !.open = @ + 1,
              !.peak = IF m.open + 1 > @ THEN m.open + 1 ELSE @,
              !.acquired = @ + 1,
              !.log = Append(@, [kind |-> kind, address |-> address,
                                 sent |-> <<>>, recv |-> <<>>])]

\* a faulty exit: chip-select released only when the block ends normally
SessionExit_unless_raised(m) ==
    IF m.err # "none" THEN m
    ELSE [m EXCEPT !.open = @ - 1, !.released = @ + 1]

\* the with block left, normally or by an exception: chip-select released
SessionExit(m) ==
    [m EXCEPT !.open = @ - 1, !.released = @ + 1]

----------------------------------------------------------------------------
(* The register transport, lines 106-142.  A length is <<>> (None) or      *)
(* <<n>>; buf names the buffer passed: "BUFFER" (_BUFFER itself) or "cbuf".*)

\* a faulty read: the address sent as the caller gave it
_read_into_unmasked(m, address, buf, length) ==
    IF Fails(m) THEN m
    ELSE LET len == IF length = <<>> THEN BufferLen ELSE length[1]
             m1  == SessionEnter(m, "read", address)
             m2  == [m1 EXCEPT !.BUFFER[0] = address]
             m3  == DeviceWrite(m2, "BUFFER", 1)
             m4  == DeviceReadInto(m3, buf, len)
         IN  SessionExit(m4)

_read_into(m, address, buf, length) ==
    IF Fails(m) THEN m
    ELSE LET len == IF length = <<>> THEN BufferLen ELSE length[1]
             m1  == SessionEnter(m, "read", address)
             m2  == [m1 EXCEPT !.BUFFER[0] = BitAnd(address, 127)]
             m3  == DeviceWrite(m2, "BUFFER", 1)
             m4  == DeviceReadInto(m3, buf, len)
         IN  SessionExit(m4)

\* a faulty single-byte read: the byte after the one just received returned
_read_u8_next_byte(m, address) ==
    LET m1 == _read_into(m, address, "BUFFER", <<1>>)
    IN  IF Fails(m1) THEN m1 ELSE [m1 EXCEPT !.ret = m1.BUFFER[1]]

_read_u8(m, address) ==
    LET m1 == _read_into(m, address, "BUFFER", <<1>>)
    IN  IF Fails(m1) THEN m1 ELSE [m1 EXCEPT !.ret = m1.BUFFER[0]]

_write_from(m, address, buf, length) ==
    IF Fails(m) THEN m
    ELSE LET len == IF length = <<>> THEN BufferLen ELSE length[1]
             m1  == SessionEnter(m, "write", address)
             m2  == [m1 EXCEPT !.BUFFER[0] = BitAnd(BitOr(address, 128), 255)]
             m3  == DeviceWrite(m2, "BUFFER", 1)
             m4  == DeviceWrite(m3, buf, len)
         IN  SessionExit(m4)

\* a faulty byte write: one byte too many clocked out of the buffer
_write_u8_three_bytes(m, address, val) ==
    IF Fails(m) THEN m
    ELSE LET m1 == SessionEnter(m, "write", address)
             m2 == [m1 EXCEPT !.BUFFER[0] = BitAnd(BitOr(address, 128), 255),
                              !.BUFFER[1] = BitAnd(val, 255)]
             m3 == DeviceWrite(m2, "BUFFER", 3)
         IN  SessionExit(m3)

\* _write_u8
_write_u8(m, address, val) ==
    IF Fails(m) THEN m
    ELSE LET m1 == SessionEnter(m, "write", address)
             m2 == [m1 EXCEPT !.BUFFER[0] = BitAnd(BitOr(address, 128), 255),
                              !.BUFFER[1] = BitAnd(val, 255)]
             m3 == DeviceWrite(m2, "BUFFER", 2)
         IN  SessionExit(m3)

----------------------------------------------------------------------------
(* The device facade, lines 26-104.                                        *)

\* a faulty constructor: the control byte written back as read
DS1343_init_keep_bit(m) ==
    LET m1 == _read_u8(m, _CTRL_REG)
        ctrl == m1.ret
    IN  IF Fails(m1) THEN m1 ELSE _write_u8(m1, _CTRL_REG, BitAnd(ctrl, 255))

\* __init__: allow battery backup
DS1343_init(m) ==
    LET m1 == _read_u8(m, _CTRL_REG)
        ctrl == m1.ret
    IN  IF Fails(m1) THEN m1 ELSE _write_u8(m1, _CTRL_REG, BitAnd(ctrl, 127))

\* a faulty getter: month and day-of-month taken from each other's register
datetime_get_swapped(m) ==
    LET m1   == _read_into(m, _S_REG, "BUFFER", <<7>>)
        tsec == _bcd_to_int(m1.BUFFER[0])
        tmin == _bcd_to_int(m1.BUFFER[1])
        thr  == _bcd_to_int(m1.BUFFER[2])
        dwd  == BitAnd(m1.BUFFER[3], 7)
        dmd  == _bcd_to_int(m1.BUFFER[5])
        dym  == _bcd_to_int(m1.BUFFER[4])
        y    == _bcd_to_int(m1.BUFFER[6]) + 2000
    IN  IF Fails(m1) THEN m1
        ELSE [m1 EXCEPT !.ret = struct_time(y, dym, dmd, thr, tmin, tsec, dwd, -1, -1)]

\* a faulty getter: OSF cleared after the read, as the setter clears it
datetime_get_clears_osf(m) ==
    LET m1   == _read_into(m, _S_REG, "BUFFER", <<7>>)
        tsec == _bcd_to_int(m1.BUFFER[0])
        tmin == _bcd_to_int(m1.BUFFER[1])
        thr  == _bcd_to_int(m1.BUFFER[2])
        dwd  == BitAnd(m1.BUFFER[3], 7)
        dmd  == _bcd_to_int(m1.BUFFER[4])
        dym  == _bcd_to_int(m1.BUFFER[5])
        y    == _bcd_to_int(m1.BUFFER[6]) + 2000
        m2   == _read_u8(m1, 16)
        stat == m2.ret
        m3   == _write_u8(m2, 16, BitAnd(stat, 127))
    IN  IF Fails(m3) THEN m3
        ELSE [m3 EXCEPT !.ret = struct_time(y, dym, dmd, thr, tmin, tsec, dwd, -1, -1)]

\* the datetime getter
datetime_get(m) ==
    LET m1   == _read_into(m, _S_REG, "BUFFER", <<7>>)
        tsec == _bcd_to_int(m1.BUFFER[0])
        tmin == _bcd_to_int(m1.BUFFER[1])
        thr  == _bcd_to_int(m1.BUFFER[2])
        dwd  == BitAnd(m1.BUFFER[3], 7)
        dmd  == _bcd_to_int(m1.BUFFER[4])
        dym  == _bcd_to_int(m1.BUFFER[5])
        y    == _bcd_to_int(m1.BUFFER[6]) + 2000
    IN  IF Fails(m1) THEN m1
        ELSE [m1 EXCEPT !.ret = struct_time(y, dym, dmd, thr, tmin, tsec, dwd, -1, -1)]

\* lines 59-65 of the datetime setter: the calendar value to encode
SetterTimeStruct(set_time) ==
    IF set_time.tag # "None"
    THEN IF isinstance_set_struct_time(set_time)
         THEN [err |-> "none", st |-> set_time.st]
         ELSE time_localtime(set_time)
    ELSE time_localtime(PyInt(0))

\* faulty register writes: OSF cleared before the fields are written
SetterWrites_status_first(m, time_struct) ==
    LET m0   == _read_u8(m, 16)
        stat == m0.ret
        m00  == IF Fails(m0) THEN m0 ELSE _write_u8(m0, 16, BitAnd(stat, 127))
        tsec == BitAnd(_int_to_bcd(time_struct.tm_sec), 127)
        m1   == _write_u8(m00, 0, tsec)
        tmn  == BitAnd(_int_to_bcd(time_struct.tm_min), 127)
        m2   == _write_u8(m1, 1, tmn)
        thr  == BitAnd(_int_to_bcd(time_struct.tm_hour), 63)
        m3   == _write_u8(m2, 2, thr)
        dwd  == BitAnd(time_struct.tm_wday, 3)
        m4   == _write_u8(m3, 3, dwd)
        dmd  == BitAnd(_int_to_bcd(time_struct.tm_mday), 63)
        m5   == _write_u8(m4, 4, dmd)
        dym  == BitAnd(_int_to_bcd(time_struct.tm_mon), 31)
        m6   == _write_u8(m5, 5, dym)
        y    == BitAnd(_int_to_bcd(time_struct.tm_year - 2000), 255)
    IN  _write_u8(m6, 6, y)

\* lines 69-99 of the datetime setter: the register writes
SetterWrites(m, time_struct) ==
    LET tsec == BitAnd(_int_to_bcd(time_struct.tm_sec), 127)
        m1   == _write_u8(m, 0, tsec)
        tmn  == BitAnd(_int_to_bcd(time_struct.tm_min), 127)
        m2   == _write_u8(m1, 1, tmn)
        thr  == BitAnd(_int_to_bcd(time_struct.tm_hour), 63)
        m3   == _write_u8(m2, 2, thr)
        dwd  == BitAnd(time_struct.tm_wday, 3)
        m4   == _write_u8(m3, 3, dwd)
        dmd  == BitAnd(_int_to_bcd(time_struct.tm_mday), 63)
        m5   == _write_u8(m4, 4, dmd)
        dym  == BitAnd(_int_to_bcd(time_struct.tm_mon), 31)
        m6   == _write_u8(m5, 5, dym)
        y    == BitAnd(_int_to_bcd(time_struct.tm_year - 2000), 255)
        m7   == _write_u8(m6, 6, y)
        \* clear OSF bit to indicate time is valid
        m8   == _read_u8(m7, 16)
        stat == m8.ret
    IN  IF Fails(m8) THEN m8 ELSE _write_u8(m8, 16, BitAnd(stat, 127))

\* the datetime setter
datetime_set(m, set_time) ==
    LET t == SetterTimeStruct(set_time)
    IN  IF t.err # "none"
        THEN [m EXCEPT !.err = t.err]
        ELSE SetterWrites([m EXCEPT !.time_struct = t.st], t.st)

\* a faulty valid: the status byte compared unmasked
valid_unmasked(m) ==
    LET m1 == _read_u8(m, 16)
    IN  IF Fails(m1) THEN m1
        ELSE [m1 EXCEPT !.ret = ~(m1.ret = 128)]

\* the valid property
valid(m) ==
    LET m1 == _read_u8(m, 16)
    IN  IF Fails(m1) THEN m1
        ELSE [m1 EXCEPT !.ret = ~(BitAnd(m1.ret, 128) = 128)]

----------------------------------------------------------------------------
(* The state machine: one facade instance on one chip.                     *)

VARIABLES
    regs,         \* the chip's registers, by address
    BUFFER,       \* _BUFFER
    open,         \* chip-select sessions open
    constructed,  \* the facade instance exists
    budget,       \* bus failures that may still happen
    fuel,         \* operations and chip events that may still happen
    op,           \* the last operation: its name, argument and bus failure
    ret,          \* the value it returned
    err,          \* the exception it raised, or "none"
    log,          \* its bus sessions
    acquired,     \* the sessions it entered
    released,     \* the sessions it left
    peak,         \* the most sessions open at once during it
    time_struct   \* the calendar value the setter chose to encode

vars == <<regs, BUFFER, open, constructed, budget, fuel, op, ret, err, log,
          acquired, released, peak, time_struct>>

\* bounds of the model: the operations of a behaviour on a healthy bus
\* (MaxOps) and on a failing one (MaxFaultOps), the bus failures of a
\* behaviour (MaxFaults), the bytes a failing device call moves before it
\* raises (MaxPartial), the largest codec input (MaxBcdInput), and the
\* operations of a behaviour that starts from any status byte
\* (MaxStatusOps), and the operations of a behaviour whose bus traffic is
\* compared with that on other buffer contents (MaxBufferOps)
MaxOps == 4
MaxBufferOps == 3
MaxStatusOps == 2
MaxFaultOps == 2
MaxFaults == 1
MaxPartial == 2
MaxBcdInput == 9999

\* the inputs the model draws
ExplicitTimes ==
    { struct_time(2024, 3, 15, 13, 5, 30, 5, -1, -1),
      struct_time(2000, 1, 1, 0, 0, 0, 0, -1, -1),
      struct_time(2099, 12, 31, 23, 59, 59, 6, -1, -1) }

\* 2000-02-29 00:00:00 (a Tuesday), 2024-03-15 13:05:30 (a Friday) and
\* 2038-01-17 19:59:59 (a Sunday)
EpochTimes == { 951782400, 1710507930, 2147371199 }

SetTimeInputs ==
    { PyStruct(st) : st \in ExplicitTimes } \cup { PyInt(n) : n \in EpochTimes }
        \cup { PyNone }

\* register contents when the host starts: the clock holds 2019-07-04
\* 21:38:46, weekday 3
InitClocks == { <<70, 56, 33, 3, 4, 7, 25>> }
InitCtrl == { 0, 132 }
InitStatus == { 4, 127, 128, 255 }

\* arguments of direct calls of the transport methods
TransportAddrs == { 5, 133 }
TransportVals == { 18 }
TransportLens == { <<>>, <<2>> }
CallerBufs == { [i \in 0..(BufferLen - 1) |-> 16 + i] }

\* where the bus may fail in an operation that makes n device calls: never
\* (<<0, 0>>), or in call f after moving p bytes, while the fault budget lasts
FailPoints(n) ==
    { <<0, 0>> } \cup
    (IF budget > 0
     THEN { <<f, p>> : f \in 1..n, p \in 0..MaxPartial }
     ELSE {})

NoOp == [name |-> "none", arg |-> PyNone, fail |-> <<0, 0>>]

\* the state before the facade is constructed
Boot(clocks, ctrls, stats) ==
    /\ \E clk \in clocks, c \in ctrls, st \in stats :
          regs = [a \in RegAddrs |->
                     IF a < 7 THEN clk[a + 1]
                     ELSE IF a = _CTRL_REG THEN c
                     ELSE IF a = 16 THEN st
                     ELSE 0]
    /\ BUFFER = ZeroBuffer
    /\ open = 0
    /\ constructed = FALSE
    /\ ret = "None"
    /\ err = "none"
    /\ log = <<>>
    /\ acquired = 0
    /\ released = 0
    /\ peak = 0
    /\ time_struct = NoStruct

\* a healthy bus
Init ==
    /\ Boot(InitClocks, InitCtrl, InitStatus)
    /\ op = NoOp
    /\ budget = 0
    /\ fuel = MaxOps

\* a bus that may fail
InitFault ==
    /\ Boot(InitClocks, { 132 }, { 127, 128 })
    /\ op = NoOp
    /\ budget = MaxFaults
    /\ fuel = MaxFaultOps

\* the machine an operation starts on
Start(fp, cbuf) ==
    [regs |-> regs, BUFFER |-> BUFFER, cbuf |-> cbuf, log |-> <<>>,
     open |-> open, acquired |-> 0, released |-> 0, peak |-> open,
     err |-> "none",
     ret |-> "None", calls |-> 0, failAt |-> fp[1], partial |-> fp[2],
     time_struct |-> NoStruct]

\* the state an operation leaves
Finish(m, name, arg, fp) ==
    /\ regs' = m.regs
    /\ BUFFER' = m.BUFFER
    /\ open' = m.open
    /\ budget' = IF m.err = "OSError" THEN budget - 1 ELSE budget
    /\ fuel' = fuel - 1
    /\ op' = [name |-> name, arg |-> arg, fail |-> fp]
    /\ ret' = m.ret
    /\ err' = m.err
    /\ log' = m.log
    /\ acquired' = m.acquired
    /\ released' = m.released
    /\ peak' = m.peak
    /\ time_struct' = m.time_struct

\* a failure point drawn is one the operation reaches
FailOK(fp, m) == fp[1] > 0 => m.err = "OSError"

Construct ==
    /\ fuel > 0
    /\ ~constructed
    /\ \E fp \in FailPoints(3) :
          LET m == DS1343_init(Start(fp, ZeroBuffer))
          IN  /\ FailOK(fp, m)
              /\ constructed' = ~Fails(m)
              /\ Finish(m, "init", PyNone, fp)

GetTime ==
    /\ fuel > 0
    /\ constructed
    /\ \E fp \in FailPoints(2) :
          LET m == datetime_get(Start(fp, ZeroBuffer))
          IN  /\ FailOK(fp, m)
              /\ Finish(m, "get", PyNone, fp)
              /\ UNCHANGED constructed

SetTime ==
    /\ fuel > 0
    /\ constructed
    /\ \E x \in SetTimeInputs, fp \in FailPoints(10) :
          LET m == datetime_set(Start(fp, ZeroBuffer), x)
          IN  /\ FailOK(fp, m)
              /\ Finish(m, "set", x, fp)
              /\ UNCHANGED constructed

GetValid ==
    /\ fuel > 0
    /\ constructed
    /\ \E fp \in FailPoints(2) :
          LET m == valid(Start(fp, ZeroBuffer))
          IN  /\ FailOK(fp, m)
              /\ Finish(m, "valid", PyNone, fp)
              /\ UNCHANGED constructed

\* direct calls of the transport methods
ReadInto ==
    /\ fuel > 0
    /\ constructed
    /\ \E a \in TransportAddrs, len \in TransportLens, fp \in FailPoints(2) :
          LET m0 == _read_into(Start(fp, ZeroBuffer), a, "cbuf", len)
              m  == IF Fails(m0) THEN m0 ELSE [m0 EXCEPT !.ret = m0.cbuf]
          IN  /\ FailOK(fp, m)
              /\ Finish(m, "_read_into", [address |-> a, length |-> len], fp)
              /\ UNCHANGED constructed

ReadU8 ==
    /\ fuel > 0
    /\ constructed
    /\ \E a \in TransportAddrs, fp \in FailPoints(2) :
          LET m == _read_u8(Start(fp, ZeroBuffer), a)
          IN  /\ FailOK(fp, m)
              /\ Finish(m, "_read_u8", [address |-> a], fp)
              /\ UNCHANGED constructed

WriteFrom ==
    /\ fuel > 0
    /\ constructed
    /\ \E a \in TransportAddrs, b \in CallerBufs, len \in TransportLens,
          fp \in FailPoints(2) :
          LET m == _write_from(Start(fp, b), a, "cbuf", len)
          IN  /\ FailOK(fp, m)
              /\ Finish(m, "_write_from", [address |-> a, length |-> len], fp)
              /\ UNCHANGED constructed

WriteU8 ==
    /\ fuel > 0
    /\ constructed
    /\ \E a \in TransportAddrs, v \in TransportVals, fp \in FailPoints(1) :
          LET m == _write_u8(Start(fp, ZeroBuffer), a, v)
          IN  /\ FailOK(fp, m)
              /\ Finish(m, "_write_u8", [address |-> a, val |-> v], fp)
              /\ UNCHANGED constructed

\* the oscillator stops: the chip raises OSF, bit 7 of the status register
OscStop ==
    /\ fuel > 0
    /\ regs[16] < 128
    /\ regs' = [regs EXCEPT ![16] = @ + 128]
    /\ op' = [NoOp EXCEPT !.name = "oscstop"]
    /\ ret' = "None"
    /\ err' = "none"
    /\ log' = <<>>
    /\ acquired' = 0
    /\ released' = 0
    /\ peak' = open
    /\ fuel' = fuel - 1
    /\ time_struct' = NoStruct
    /\ UNCHANGED <<BUFFER, open, constructed, budget>>

\* a healthy bus, and any byte in the status register
InitStatusByte ==
    /\ Boot(InitClocks, { 132 }, Byte)
    /\ op = NoOp
    /\ budget = 0
    /\ fuel = MaxStatusOps

\* a healthy bus, for the comparison of buffer contents
InitBuffer ==
    /\ Boot(InitClocks, InitCtrl, { 127, 128 })
    /\ op = NoOp
    /\ budget = 0
    /\ fuel = MaxBufferOps

Next ==
    \/ Construct
    \/ GetTime
    \/ SetTime
    \/ GetValid
    \/ ReadInto
    \/ ReadU8
    \/ WriteFrom
    \/ WriteU8
    \/ OscStop

Spec == Init /\ [][Next]_vars

SpecFault == InitFault /\ [][Next]_vars

SpecStatus == InitStatusByte /\ [][Next]_vars

SpecBuffer == InitBuffer /\ [][Next]_vars

----------------------------------------------------------------------------
(* The codec on its own: an input is drawn, encoded, and the code decoded. *)

InitBcd ==
    /\ Boot(InitClocks, { 132 }, { 128 })
    /\ budget = 0
    /\ fuel = 0
    /\ \E n \in 0..MaxBcdInput :
          op = [name |-> "codec", arg |-> n, fail |-> <<0, 0>>]

IntToBcd ==
    /\ op.name = "codec"
    /\ op' = [op EXCEPT !.name = "_int_to_bcd"]
    /\ ret' = _int_to_bcd(op.arg)
    /\ UNCHANGED <<regs, BUFFER, open, constructed, budget, fuel, err, log,
                   acquired, released, peak, time_struct>>

BcdToInt ==
    /\ op.name = "_int_to_bcd"
    /\ op' = [op EXCEPT !.name = "_bcd_to_int"]
    /\ ret' = _bcd_to_int(ret)
    /\ UNCHANGED <<regs, BUFFER, open, constructed, budget, fuel, err, log,
                   acquired, released, peak, time_struct>>

NextBcd ==
    \/ IntToBcd
    \/ BcdToInt

SpecBcd == InitBcd /\ [][NextBcd]_vars

----------------------------------------------------------------------------
(* The claims.                                                             *)

FacadeOps == { "get", "set", "valid" }

\* the calendar fields a CalendarTime of the claims' domain holds
InDomain(st) ==
    /\ st.tm_year \in 2000..2099
    /\ st.tm_mon \in 1..12
    /\ st.tm_mday \in 1..31
    /\ st.tm_hour \in 0..23
    /\ st.tm_min \in 0..59
    /\ st.tm_sec \in 0..59

SameClock(a, b) ==
    /\ a.tm_year = b.tm_year
    /\ a.tm_mon = b.tm_mon
    /\ a.tm_mday = b.tm_mday
    /\ a.tm_hour = b.tm_hour
    /\ a.tm_min = b.tm_min
    /\ a.tm_sec = b.tm_sec

\* C1: a set-time of an explicit CalendarTime of the domain (year 2000-2099,
\* month 1-12, day 1-31, hour 0-23, minute 0-59, second 0-59) followed at
\* once by a get-time returns the same year, month, day, hour, minute and
\* second.
C1_SetThenGetExplicit ==
    [][(/\ op.name = "set"
        /\ op.arg.tag = "struct_time"
        /\ InDomain(op.arg.st)
        /\ op'.name = "get")
       => (/\ err = "none"
           /\ err' = "none"
           /\ SameClock(ret', op.arg.st))]_vars

\* C2: for every integer n in 0..99, bcd_to_int(int_to_bcd(n)) = n.
C2_BcdRoundTrip ==
    (op.name = "_bcd_to_int" /\ op.arg \in 0..99) => ret = op.arg

C2_Witness ==
    op.name = "_bcd_to_int" /\ op.arg = 59 /\ ret = 59

\* the calendar value the spec has set-time encode for an input
ExpectedStruct(x) ==
    IF x.tag = "struct_time" THEN x.st
    ELSE IF x.tag = "int" THEN localtime(x.int)
    ELSE localtime(0)

\* C3: set-time encodes, for an explicit CalendarTime, its fields as given,
\* for an epoch integer, its calendar conversion, and for no value, the
\* conversion of epoch zero; in all three cases it goes on to the register
\* writes.
C3_ThreeInputForms ==
    op.name = "set" =>
        /\ err = "none"
        /\ time_struct = ExpectedStruct(op.arg)
        /\ log # <<>>

\* C4: get-valid returns false in a state where OSF (status bit 7) is 1, and
\* returns true right after any set-time call, whatever its input form.
C4_ValidAfterSet ==
    [][/\ (regs[16] >= 128 /\ op'.name = "valid") => ret' = FALSE
       /\ (op.name = "set" /\ op'.name = "valid") => ret' = TRUE]_vars

\* C5: after a set-time that encoded day-of-week w, for every w in 0..6, a
\* get-time returns day-of-week w.
C5_WeekdayRoundTrip ==
    [][(/\ op.name = "set"
        /\ err = "none"
        /\ time_struct.tm_wday \in 0..6
        /\ op'.name = "get")
       => ret'.tm_wday = time_struct.tm_wday]_vars

\* C6: in every bus session the first byte sent is the direction-framed
\* address: a read sends the address with bit 7 cleared, a write the address
\* with bit 7 set, whatever bit 7 of the address the caller gave.
C6_AddressFraming ==
    \A i \in 1..Len(log) :
        log[i].sent # <<>> =>
            /\ log[i].kind = "read" =>
                  /\ log[i].sent[1] = log[i].address % 128
                  /\ log[i].sent[1] < 128
            /\ log[i].kind = "write" =>
                  /\ log[i].sent[1] = (log[i].address % 128) + 128
                  /\ log[i].sent[1] >= 128

C6_Witness ==
    /\ op.name = "_read_into"
    /\ op.arg.address = 133
    /\ log[1].sent = <<5>>

TransportOps == { "_read_into", "_read_u8", "_write_from", "_write_u8" }

\* C7: every transport call enters the chip-select session once and leaves
\* it once on every exit path, a bus failure after the address byte or in
\* the middle of a burst read included; at most one session is ever open,
\* and none is open when an operation has returned or raised.
C7_SessionScoping ==
    /\ open = 0
    /\ peak <= 1
    /\ acquired = released
    /\ acquired = Len(log)
    /\ op.name \in TransportOps => (acquired = 1 /\ released = 1)

C7_Witness ==
    /\ op.name = "get"
    /\ err = "OSError"
    /\ op.fail = <<2, 2>>
    /\ Len(log[1].recv) = 2
    /\ released = 1
    /\ open = 0

\* C8: get-valid returns true if and only if bit 7 of the status register is
\* 0, whatever the other seven bits are.
C8_ValidIffOsfClear ==
    op.name = "valid" =>
        /\ err = "none"
        /\ ret = (regs[16] < 128)
        /\ log[1].recv = <<regs[16]>>

C8_Witness ==
    op.name = "valid" /\ regs[16] = 127 /\ ret = TRUE

\* the registers a session touched
Touched(t) ==
    IF t.sent = <<>> THEN {}
    ELSE { (t.sent[1] % 128) + k : k \in 0..(Len(t.sent) + Len(t.recv) - 2) }

\* C9: construction runs once, before any get-time, set-time or get-valid,
\* and is a read of the control register 0x0F followed by a write of it with
\* bit 7 cleared; control bit 7 is 0 after it, and no later facade operation
\* reads or writes the control register.
C9_ConstructionOnce ==
    /\ [](op.name = "init" =>
             /\ constructed
             /\ Len(log) = 2
             /\ log[1].kind = "read"
             /\ log[1].sent = <<15>>
             /\ Len(log[1].recv) = 1
             /\ log[2].kind = "write"
             /\ log[2].sent = <<143, log[1].recv[1] % 128>>
             /\ regs[15] = log[1].recv[1] % 128)
    /\ [](op.name \in FacadeOps =>
             /\ constructed
             /\ \A i \in 1..Len(log) : 15 \notin Touched(log[i]))
    /\ [][(op'.name = "init" => ~constructed) /\ (constructed => constructed')]_vars

C9_Witness ==
    /\ op.name = "init"
    /\ constructed
    /\ log[1].recv = <<132>>
    /\ regs[15] = 4

\* C10: a set-time that meets no bus failure makes exactly nine sessions in
\* this order: seven two-byte writes to 0x00, 0x01, ..., 0x06, a one-byte
\* read of the status register 0x10, and a write of 0x10 with bit 7 of the
\* value read cleared.
C10_NineTransactions ==
    (op.name = "set" /\ err # "OSError") =>
        /\ Len(log) = 9
        /\ \A i \in 1..7 :
              /\ log[i].kind = "write"
              /\ Len(log[i].sent) = 2
              /\ log[i].sent[1] = 128 + (i - 1)
              /\ log[i].recv = <<>>
        /\ log[8].kind = "read"
        /\ log[8].sent = <<16>>
        /\ Len(log[8].recv) = 1
        /\ log[9].kind = "write"
        /\ log[9].sent = <<144, log[8].recv[1] % 128>>

\* the transaction of set-time that device call f belongs to: calls 1-7 are
\* the field writes, calls 8 and 9 the status read, call 10 the status write
SetTransaction(f) == IF f <= 7 THEN f ELSE IF f <= 9 THEN 8 ELSE 9

\* C11: when the bus fails in the k-th transaction of set-time, the error
\* reaches the caller and no further transaction is made; the registers
\* written by transactions 1..k-1 hold what was written, the registers of
\* the later field writes and all registers outside the clock keep their old
\* values, and for k <= 8 the status register is unchanged.  Set-time clears
\* OSF only after seven complete field writes.
C11_PartialFailure ==
    [][op'.name = "set" =>
          /\ err' = "OSError" =>
                LET k == SetTransaction(op'.fail[1])
                IN  /\ Len(log') = k
                    /\ \A i \in 1..7 :
                          /\ i < k => (/\ Len(log'[i].sent) = 2
                                       /\ regs'[i - 1] = log'[i].sent[2])
                          /\ i > k => regs'[i - 1] = regs[i - 1]
                    /\ \A a \in 7..15 : regs'[a] = regs[a]
                    /\ k <= 8 => regs'[16] = regs[16]
          /\ (regs[16] >= 128 /\ regs'[16] < 128) =>
                /\ Len(log') = 9
                /\ \A i \in 1..7 : /\ Len(log'[i].sent) = 2
                                   /\ regs'[i - 1] = log'[i].sent[2]]_vars

C11_Witness ==
    /\ op.name = "set"
    /\ op.arg = PyInt(1710507930)
    /\ err = "OSError"
    /\ op.fail[1] = 4
    /\ Len(log) = 4
    /\ regs[0] = 48
    /\ regs[2] = 19
    /\ regs[5] = 7
    /\ regs[16] = 128

\* 10 * high nibble + low nibble of a byte
NibbleValue(r) == 10 * (r \div 16) + (r % 16)

PackedBcd(n) ==
    (n % 10) + 16 * ((n \div 10) % 10) + 256 * ((n \div 100) % 10)
        + 4096 * ((n \div 1000) % 10)

\* C13: for every n in 0..9999, int_to_bcd(n) is the packed BCD of n: ones,
\* tens, hundreds and thousands digit in the nibbles at bit offsets 0, 4, 8
\* and 12, and no bit above bit 15 set.
C13_PackedBcd ==
    (op.name = "_int_to_bcd" /\ op.arg \in 0..9999) =>
        /\ ret = PackedBcd(op.arg)
        /\ ret < 65536

\* buffer contents other operations may have left behind
OtherBuffers ==
    { ZeroBuffer, [i \in 0..(BufferLen - 1) |-> 255 - i] }

\* the facade operation `o` run on the current registers with _BUFFER
\* holding b
Rerun(o, b) ==
    LET m == [Start(o.fail, ZeroBuffer) EXCEPT !.BUFFER = b]
    IN  IF o.name = "init" THEN DS1343_init(m)
        ELSE IF o.name = "get" THEN datetime_get(m)
        ELSE IF o.name = "set" THEN datetime_set(m, o.arg)
        ELSE valid(m)

\* C14: the shared transfer buffer carries nothing from one call to the
\* next: a facade operation run on the same registers with any other buffer
\* content sends and receives the same bytes, returns or raises the same,
\* and leaves the same registers.
C14_BufferIndependence ==
    [][op'.name \in FacadeOps \cup { "init" } =>
          \A b \in OtherBuffers :
              LET m == Rerun(op', b)
              IN  /\ m.log = log'
                  /\ m.err = err'
                  /\ m.ret = ret'
                  /\ m.regs = regs']_vars

\* a get-time that ran on a buffer still holding the bytes of a set-time
C14_Witness ==
    /\ op.name = "get"
    /\ err = "none"
    /\ BUFFER[7] = 0
    /\ ret.tm_year = 2024
    /\ BUFFER[6] = 36

\* C15: the two read-modify-write steps change only their flag bit.  A
\* construction leaves bits 0-6 of the control register (0x0F) as they were
\* read, writes back exactly the byte read with bit 7 cleared, and changes no
\* other register.  A set-time leaves bits 0-6 of the status register (0x10)
\* as they were read and changes none of the registers 0x07-0x0F; when it
\* succeeds its last write is the status byte read with bit 7 cleared, so the
\* only registers that differ are 0x00-0x06 and bit 7 of 0x10.
C15_ReadModifyWriteFrame ==
    [][/\ op'.name = "init" =>
             /\ regs'[15] % 128 = regs[15] % 128
             /\ \A a \in RegAddrs \ { 15 } : regs'[a] = regs[a]
             /\ err' = "none" =>
                   /\ Len(log') = 2
                   /\ log'[1].recv = <<regs[15]>>
                   /\ log'[2].sent = <<143, regs[15] % 128>>
                   /\ regs'[15] = regs[15] % 128
       /\ op'.name = "set" =>
             /\ regs'[16] % 128 = regs[16] % 128
             /\ \A a \in 7..15 : regs'[a] = regs[a]
             /\ err' = "none" =>
                   /\ Len(log') = 9
                   /\ log'[8].recv = <<regs[16]>>
                   /\ log'[9].sent = <<144, regs[16] % 128>>
                   /\ regs'[16] = regs[16] % 128]_vars

\* a set-time that succeeded on a status byte with every bit set: OSF is
\* cleared, the seven low bits are kept, and the control byte still has the
\* low bits the construction found
C15_Witness ==
    /\ op.name = "set"
    /\ op.arg = PyInt(1710507930)
    /\ err = "none"
    /\ log[8].recv = <<255>>
    /\ regs[16] = 127
    /\ regs[15] = 4
    /\ regs[6] = 36

\* C16: get-time and get-valid are read-only with respect to the chip.  Every
\* session such a call opens sends one byte only, an address with bit 7
\* clear, and after the call every register holds what it held before; in
\* particular a get-valid that finds OSF set leaves it set.
C16_ReadOnly ==
    [][op'.name \in { "get", "valid" } =>
          /\ regs' = regs
          /\ Len(log') >= 1
          /\ \A i \in 1..Len(log') :
                /\ Len(log'[i].sent) <= 1
                /\ \A j \in 1..Len(log'[i].sent) : log'[i].sent[j] < 128]_vars

\* a get-valid that read a status byte with OSF set, said so, and left it set
C16_Witness ==
    /\ op.name = "valid"
    /\ err = "none"
    /\ ret = FALSE
    /\ log[1].sent = <<16>>
    /\ log[1].recv = <<255>>
    /\ regs[16] = 255

\* C17: a set-time with no argument (epoch zero) followed by get-time returns
\* the calendar date of epoch zero, year 1970: the year byte set-time wrote
\* decodes, after adding 2000, to the year that was encoded.
C17_DefaultSetThenGet ==
    [][(/\ op.name = "set"
        /\ op.arg = PyNone
        /\ err = "none"
        /\ op'.name = "get"
        /\ err' = "none") =>
          /\ time_struct.tm_year = 1970
          /\ ret'.tm_year = time_struct.tm_year
          /\ ret'.tm_mon = 1
          /\ ret'.tm_mday = 1]_vars

====
